---- MODULE Spec2Model ----
(***************************************************************************)
(* Nervos CKB node dashboard: the RPC poller (updateData), the epoch       *)
(* decoder, the halving projection, the countdown formatter, the bounded   *)
(* tx history (updateTxHistoryData) and the three interval loops of App.   *)
(*                                                                         *)
(* JavaScript numbers that can leave the integers (targetTime) are records *)
(* [k, s, ms]: k = "fin" is the integer s*1000 + ms milliseconds with      *)
(* 0 <= ms < 1000, k = "NaN" and k = "-Infinity" are the two non-finite    *)
(* values the projection can produce.  Millisecond values are kept as      *)
(* (seconds, milliseconds) pairs because they exceed 2^31.  The projection  *)
(* is computed as the program computes it, in IEEE-754 doubles: every      *)
(* operation rounds its exact result to 53 significant bits, ties to even. *)
(***************************************************************************)
EXTENDS Integers, Sequences, FiniteSets, TLC

VARIABLES settings, currentData, txHistory, countdown, targetString,
          polls, now, toasts, started, call

vars == <<settings, currentData, txHistory, countdown, targetString,
          polls, now, toasts, started, call>>

(***************************************************************************)
(* Constants of the program                                                *)
(***************************************************************************)
EPOCHS_PER_HALVING == 8760

HOURS_PER_EPOCH == 4

\* HALVING_MESSAGE_HIDE_DELAY = 10 * 60 * 1000 ms, held in seconds
HALVING_MESSAGE_HIDE_DELAY_S == 600

\* 60*60 seconds per hour (the factor 60*60*1000 without its milliseconds)
SECONDS_PER_HOUR == 3600

\* The capacity of the tx history.  The program's value is 100 and its
\* start-up buffer holds 50 placeholders; the model keeps the shape (a
\* start-up buffer shorter than the capacity) at a size TLC can enumerate.
MAX_TX_HISTORY_COUNT == 3

\* Number of placeholder elements of the start-up buffer (Array(50) in App).
INITIAL_TX_HISTORY_COUNT == 2

(***************************************************************************)
(* Bounds of the model                                                     *)
(***************************************************************************)
\* The clock runs from 1 to MaxNow (milliseconds).
MaxNow == 2

\* Polls that may be in flight at once.
MaxInFlight == 2

\* Error toasts shown in one run.
MaxToasts == 1

\* Settings changes and polls started in one run.
MaxPolls == 3

(***************************************************************************)
(* JavaScript numbers                                                      *)
(***************************************************************************)
Fin(s, ms) == [k |-> "fin", s |-> s, ms |-> ms]

NaN == [k |-> "NaN", s |-> 0, ms |-> 0]

NegInfinity == [k |-> "-Infinity", s |-> 0, ms |-> 0]

\* a number of milliseconds as a finite number
FromMs(n) == Fin(n \div 1000, n % 1000)

\* a + b for a, b finite, NaN or -Infinity
NumAdd(a, b) ==
    IF a.k = "NaN" \/ b.k = "NaN" THEN NaN
    ELSE IF a.k = "-Infinity" \/ b.k = "-Infinity" THEN NegInfinity
    ELSE Fin(a.s + b.s + ((a.ms + b.ms) \div 1000), (a.ms + b.ms) % 1000)

\* a - b for a finite or -Infinity (NaN excluded by the caller), b finite
NumSub(a, b) ==
    IF a.k # "fin" THEN a
    ELSE Fin(a.s - b.s + ((a.ms - b.ms) \div 1000), (a.ms - b.ms) % 1000)

\* a > 0
NumPositive(a) == a.k = "fin" /\ (a.s > 0 \/ (a.s = 0 /\ a.ms > 0))

\* a < s seconds
NumBelowSeconds(a, s) == a.k = "-Infinity" \/ (a.k = "fin" /\ a.s < s)

\* JavaScript truthiness of a number: 0 and NaN are falsy
Truthy(a) == ~(a.k = "NaN" \/ (a.k = "fin" /\ a.s = 0 /\ a.ms = 0))

(***************************************************************************)
(* 64-bit values (BigInt of the hex string of the RPC), as 64 bits,        *)
(* least significant first                                                 *)
(***************************************************************************)
WORD == 64

\* the bits of the natural number v, shifted left by sh, in a 64-bit word
BitsOf(v, sh) ==
    [i \in 1..WORD |-> IF i <= sh \/ i - sh > 31 THEN 0
                        ELSE (v \div (2 ^ (i - 1 - sh))) % 2]

\* the mask with bits lo..hi (0-based, inclusive) set
MaskBits(lo, hi) == [i \in 1..WORD |-> IF i - 1 >= lo /\ i - 1 <= hi THEN 1 ELSE 0]

BitAnd(a, b) == [i \in 1..WORD |-> a[i] * b[i]]

BitOr(a, b) == [i \in 1..WORD |-> IF a[i] + b[i] > 0 THEN 1 ELSE 0]

\* a >> n
ShiftRight(a, n) == [i \in 1..WORD |-> IF i + n <= WORD THEN a[i + n] ELSE 0]

RECURSIVE BitsValue(_, _)
\* Number(a) for a value whose bits from position i (1-based) on are < 2^31
BitsValue(a, i) ==
    IF i > WORD THEN 0 ELSE a[i] + 2 * BitsValue(a, i + 1)

ToNumber(a) == BitsValue(a, 1)

\* 72056494526300160n = 0xFFFF0000000000
MASK_EPOCH_LENGTH == MaskBits(40, 55)

\* 1099494850560n = 0xFFFF000000
MASK_EPOCH_INDEX == MaskBits(24, 39)

\* 16777215n = 0xFFFFFF
MASK_EPOCH_NUMBER == MaskBits(0, 23)

\* the packed value epochNumber | (epochIndex << 24) | (epochLength << 40)
PackEpoch(epochNumber, epochIndex, epochLength) ==
    BitOr(BitOr(BitsOf(epochNumber, 0), BitsOf(epochIndex, 24)),
          BitsOf(epochLength, 40))

decodeEpochLength(epochNumberWithFraction) ==
    ToNumber(ShiftRight(BitAnd(epochNumberWithFraction, MASK_EPOCH_LENGTH), 40))

\* variant: the index is shifted by 16 bits instead of 24
decodeEpochIndexShift16(epochNumberWithFraction) ==
    ToNumber(ShiftRight(BitAnd(epochNumberWithFraction, MASK_EPOCH_INDEX), 16))

decodeEpochIndex(epochNumberWithFraction) ==
    ToNumber(ShiftRight(BitAnd(epochNumberWithFraction, MASK_EPOCH_INDEX), 24))

decodeEpochNumber(epochNumberWithFraction) ==
    ToNumber(BitAnd(epochNumberWithFraction, MASK_EPOCH_NUMBER))

\* the three fields decoded from one packed value
decodeEpoch(epochNumberWithFraction) ==
    [epoch       |-> decodeEpochNumber(epochNumberWithFraction),
     epochIndex  |-> decodeEpochIndex(epochNumberWithFraction),
     epochLength |-> decodeEpochLength(epochNumberWithFraction)]

(***************************************************************************)
(* IEEE-754 double arithmetic on the non-negative values of the projection *)
(***************************************************************************)
\* bits of the significand of a double
SIGNIFICAND == 53

\* A large natural number is a sequence of limbs of LIMB_BITS bits, least
\* significant first.
LIMB_BITS == 15

LIMB == 2 ^ LIMB_BITS

\* A non-negative double is held as the natural number value * 2^FRACTION_BITS
\* (FRACTION_LIMBS limbs after the binary point): enough for the 53 bits of
\* the smallest quotient epochIndex / epochLength and a sticky bit.
FRACTION_LIMBS == 6

FRACTION_BITS == FRACTION_LIMBS * LIMB_BITS

limbAt(a, i) == IF i >= 1 /\ i <= Len(a) THEN a[i] ELSE 0

RECURSIVE NatLimbs(_)
NatLimbs(n) == IF n = 0 THEN <<>> ELSE <<n % LIMB>> \o NatLimbs(n \div LIMB)

RECURSIVE LimbsNat(_)
\* the value of a number below 2^31
LimbsNat(a) == IF a = <<>> THEN 0 ELSE Head(a) + LIMB * LimbsNat(Tail(a))

RECURSIVE addFrom(_, _, _, _)
\* the limbs from i on of a + b + carry
addFrom(a, b, i, carry) ==
    IF i > Len(a) /\ i > Len(b) /\ carry = 0 THEN <<>>
    ELSE LET s == limbAt(a, i) + limbAt(b, i) + carry
         IN  <<s % LIMB>> \o addFrom(a, b, i + 1, s \div LIMB)

BigAdd(a, b) == addFrom(a, b, 1, 0)

RECURSIVE subFrom(_, _, _, _)
\* the limbs from i on of a - b - borrow, for a >= b
subFrom(a, b, i, borrow) ==
    IF i > Len(a) THEN <<>>
    ELSE LET s == limbAt(a, i) - limbAt(b, i) - borrow
         IN  <<s % LIMB>> \o subFrom(a, b, i + 1, IF s < 0 THEN 1 ELSE 0)

BigSub(a, b) == subFrom(a, b, 1, 0)

RECURSIVE mulFrom(_, _, _, _)
\* the limbs from i on of a * k + carry, for k <= LIMB
mulFrom(a, k, i, carry) ==
    IF i > Len(a) /\ carry = 0 THEN <<>>
    ELSE LET s == limbAt(a, i) * k + carry
         IN  <<s % LIMB>> \o mulFrom(a, k, i + 1, s \div LIMB)

BigMulSmall(a, k) == mulFrom(a, k, 1, 0)

RECURSIVE divFrom(_, _, _, _)
\* quotient and remainder of the limbs 1..i of a, below the remainder r of
\* the limbs above them, by k <= LIMB
divFrom(a, i, k, r) ==
    IF i = 0 THEN [q |-> <<>>, r |-> r]
    ELSE LET v    == r * LIMB + a[i]
             rest == divFrom(a, i - 1, k, v % k)
         IN  [q |-> Append(rest.q, v \div k), r |-> rest.r]

BigDivMod(a, k) == divFrom(a, Len(a), k, 0)

\* number of bits of a
BitLen(a) ==
    IF \A i \in 1..Len(a) : a[i] = 0 THEN 0
    ELSE LET top  == CHOOSE i \in 1..Len(a) :
                        a[i] # 0 /\ \A j \in (i + 1)..Len(a) : a[j] = 0
             bits == CHOOSE n \in 1..LIMB_BITS : a[top] \div (2 ^ n) = 0 /\ a[top] \div (2 ^ (n - 1)) # 0
         IN  (top - 1) * LIMB_BITS + bits

BigIsOdd(a) == limbAt(a, 1) % 2 = 1

\* a * 2^n
BigShiftLeft(a, n) ==
    [i \in 1..(n \div LIMB_BITS) |-> 0] \o BigMulSmall(a, 2 ^ (n % LIMB_BITS))

\* floor(a / 2^n), and whether a bit was lost
BigShiftRight(a, n) ==
    LET whole == n \div LIMB_BITS
        high  == BigDivMod(SubSeq(a, whole + 1, Len(a)), 2 ^ (n % LIMB_BITS))
    IN  [q |-> high.q,
         lost |-> high.r # 0 \/ \E i \in 1..whole : limbAt(a, i) # 0]

\* a rounded to SIGNIFICAND significant bits, ties to even
Round53(a) ==
    LET L == BitLen(a) - SIGNIFICAND
    IN  IF L <= 0 THEN a
        ELSE LET below == BigShiftRight(a, L - 1)
                 kept  == BigShiftRight(below.q, 1).q
                 up    == BigIsOdd(below.q) /\ (below.lost \/ BigIsOdd(kept))
             IN  BigShiftLeft(IF up THEN BigAdd(kept, <<1>>) ELSE kept, L)

RECURSIVE quotientLimbs(_, _, _)
\* the first n limbs of r / d after the binary point (r < d < 2^16), as
\* floor(r * LIMB^n / d), and the remainder
quotientLimbs(r, d, n) ==
    IF n = 0 THEN [q |-> <<>>, r |-> r]
    ELSE LET rest == quotientLimbs((r * LIMB) % d, d, n - 1)
         IN  [q |-> Append(rest.q, (r * LIMB) \div d), r |-> rest.r]

\* a / b for naturals a < b, b > 0: the quotient to FRACTION_BITS bits, its
\* lowest bit set when the division left a remainder, rounded
FloatDiv(a, b) ==
    LET d == quotientLimbs(a, b, FRACTION_LIMBS)
    IN  Round53(IF d.r = 0 \/ BigIsOdd(d.q) THEN d.q ELSE BigAdd(d.q, <<1>>))

FloatOfNat(n) == [i \in 1..FRACTION_LIMBS |-> 0] \o NatLimbs(n)

\* n + v for a natural number n
FloatAddNat(n, v) == Round53(BigAdd(FloatOfNat(n), v))

\* n - v for a natural number n >= v
FloatNatSub(n, v) == Round53(BigSub(FloatOfNat(n), v))

\* v * k for a natural number k <= LIMB
FloatMulNat(v, k) == Round53(BigMulSmall(v, k))

\* Math.floor(v), a number of milliseconds, in seconds and milliseconds
FloatFloorMs(v) ==
    LET d == BigDivMod(SubSeq(v, FRACTION_LIMBS + 1, Len(v)), 1000)
    IN  Fin(LimbsNat(d.q), d.r)

(***************************************************************************)
(* The halving projection                                                  *)
(***************************************************************************)
\* variant: the multiple of EPOCHS_PER_HALVING at or after epochNumber
calcTargetEpochCeiling(epochNumber) ==
    ((epochNumber + EPOCHS_PER_HALVING - 1) \div EPOCHS_PER_HALVING) * EPOCHS_PER_HALVING

calcTargetEpoch(epochNumber) ==
    (epochNumber \div EPOCHS_PER_HALVING) * EPOCHS_PER_HALVING + EPOCHS_PER_HALVING

\* variant: the part of the epoch already past, epochIndex / epochLength,
\* is not taken off
calcTargetDurationWholeEpochs(targetEpoch, epochNumber, epochIndex, epochLength) ==
    IF epochLength = 0
    THEN IF epochIndex = 0 THEN NaN
         ELSE NegInfinity
    ELSE LET epochs == FloatNatSub(targetEpoch, FloatOfNat(epochNumber))
         IN  FloatFloorMs(FloatMulNat(FloatMulNat(FloatMulNat(
                 FloatMulNat(epochs, HOURS_PER_EPOCH), 60), 60), 1000))

\* Math.floor((targetEpoch - (epochNumber + (epochIndex / epochLength)))
\*            * HOURS_PER_EPOCH * 60*60*1000), the products taken left to right
calcTargetDuration(targetEpoch, epochNumber, epochIndex, epochLength) ==
    IF epochLength = 0
    THEN IF epochIndex = 0 THEN NaN          \* 0 / 0
         ELSE NegInfinity                    \* x / 0 = Infinity, subtracted
    ELSE LET position == FloatAddNat(epochNumber, FloatDiv(epochIndex, epochLength))
             epochs   == FloatNatSub(targetEpoch, position)
         IN  FloatFloorMs(FloatMulNat(FloatMulNat(FloatMulNat(
                 FloatMulNat(epochs, HOURS_PER_EPOCH), 60), 60), 1000))

calcTargetTime(dateNow, targetDuration) == NumAdd(FromMs(dateNow), targetDuration)

(***************************************************************************)
(* The countdown formatter                                                 *)
(***************************************************************************)
NoTimeValue == [months |-> 0, days |-> 0, hours |-> 0, minutes |-> 0, seconds |-> 0]

\* variant: the months are not taken off before the hours are counted
calculateTimeValueHoursOfMonth(s) ==
    LET minute  == 60
        hour    == minute * 60
        day     == hour * 24
        month   == day * 30
        months  == s \div month
        days    == (s - months * month) \div day
        hours   == (s - days * day) \div hour
        minutes == (s - (hours * hour + days * day)) \div minute
        seconds == s - (minutes * minute + hours * hour + days * day)
    IN  [months |-> months, days |-> days, hours |-> hours,
         minutes |-> minutes, seconds |-> seconds]

\* calculateTimeValue for timeFromNow = s seconds and some milliseconds
calculateTimeValue(s) ==
    LET minute  == 60
        hour    == minute * 60
        day     == hour * 24
        month   == day * 30
        months  == s \div month
        days    == (s - months * month) \div day
        hours   == (s - (days * day + months * month)) \div hour
        minutes == (s - (hours * hour + days * day + months * month)) \div minute
        seconds == s - (minutes * minute + hours * hour + days * day + months * month)
    IN  [months |-> months, days |-> days, hours |-> hours,
         minutes |-> minutes, seconds |-> seconds]

\* variant: HALVING_MESSAGE_HIDE_DELAY is not taken off the window
generateCountdownNoHideDelay(targetTime, dateNow) ==
    IF Truthy(targetTime)
    THEN LET timeRemaining == NumSub(targetTime, FromMs(dateNow))
             halvingMessageWindowS ==
                 EPOCHS_PER_HALVING * HOURS_PER_EPOCH * SECONDS_PER_HOUR
         IN  IF NumPositive(timeRemaining)
                /\ NumBelowSeconds(timeRemaining, halvingMessageWindowS)
             THEN [kind |-> "countdown", value |-> calculateTimeValue(timeRemaining.s)]
             ELSE [kind |-> "halving", value |-> NoTimeValue]
    ELSE [kind |-> "empty", value |-> NoTimeValue]

\* generateCountdown: "" | the countdown string | the halving message
generateCountdown(targetTime, dateNow) ==
    IF Truthy(targetTime)
    THEN LET timeRemaining == NumSub(targetTime, FromMs(dateNow))
             halvingMessageWindowS ==
                 EPOCHS_PER_HALVING * HOURS_PER_EPOCH * SECONDS_PER_HOUR
                     - HALVING_MESSAGE_HIDE_DELAY_S
         IN  IF NumPositive(timeRemaining)
                /\ NumBelowSeconds(timeRemaining, halvingMessageWindowS)
             THEN [kind |-> "countdown", value |-> calculateTimeValue(timeRemaining.s)]
             ELSE [kind |-> "halving", value |-> NoTimeValue]
    ELSE [kind |-> "empty", value |-> NoTimeValue]

\* generateTargetString: "" | the date of targetTime
generateTargetString(targetEpoch, targetTime) ==
    IF targetEpoch # 0
    THEN [kind |-> "date", value |-> targetTime]
    ELSE [kind |-> "empty", value |-> Fin(0, 0)]

(***************************************************************************)
(* The tx history                                                          *)
(***************************************************************************)
\* a HistoryState|null argument that is null
Null == [blockNumber |-> 0, cyclesConsumed |-> 0, txCount |-> 0, null |-> TRUE]

HistoryState(blockNumber, cyclesConsumed, txCount) ==
    [blockNumber |-> blockNumber, cyclesConsumed |-> cyclesConsumed, txCount |-> txCount]

\* variant: the check for a blockNumber already held is left out
includesBlockNumberNever(history, blockNumber) == FALSE

\* variant: only the oldest element is compared
includesBlockNumberOldestOnly(history, blockNumber) ==
    Len(history) > 0 /\ history[1].blockNumber = blockNumber

\* txHistory.map((x)=>x.blockNumber).includes(blockNumber)
includesBlockNumber(history, blockNumber) ==
    \E i \in 1..Len(history) : history[i].blockNumber = blockNumber

\* variant: the element is dropped only once the buffer is over its capacity
shiftIfOverFull(txHistoryNew) ==
    IF Len(txHistoryNew) > MAX_TX_HISTORY_COUNT THEN Tail(txHistoryNew) ELSE txHistoryNew

\* variant: pop() instead of shift(), the newest element is dropped
popIfFull(txHistoryNew) ==
    IF Len(txHistoryNew) = MAX_TX_HISTORY_COUNT
    THEN SubSeq(txHistoryNew, 1, Len(txHistoryNew) - 1)
    ELSE txHistoryNew

\* shift() when the buffer is full
shiftIfFull(txHistoryNew) ==
    IF Len(txHistoryNew) = MAX_TX_HISTORY_COUNT THEN Tail(txHistoryNew) ELSE txHistoryNew

\* variant: the test !!currentHistoryState.blockNumber is left out
updateTxHistoryDataAnyBlockNumber(currentHistoryState, history) ==
    IF /\ currentHistoryState # Null
       /\ ~includesBlockNumber(history, currentHistoryState.blockNumber)
    THEN Append(shiftIfFull(history), currentHistoryState)
    ELSE history

\* variant: unshift() instead of push(), the sample is put in front
updateTxHistoryDataAtFront(currentHistoryState, history) ==
    IF /\ currentHistoryState # Null
       /\ currentHistoryState.blockNumber # 0
       /\ ~includesBlockNumber(history, currentHistoryState.blockNumber)
    THEN <<currentHistoryState>> \o shiftIfFull(history)
    ELSE history

\* updateTxHistoryData: the array the tx history state holds afterwards
updateTxHistoryData(currentHistoryState, history) ==
    IF /\ currentHistoryState # Null
       /\ currentHistoryState.blockNumber # 0
       /\ ~includesBlockNumber(history, currentHistoryState.blockNumber)
    THEN Append(shiftIfFull(history), currentHistoryState)
    ELSE history

\* Array(50).fill({blockNumber: 0, cyclesConsumed: 0, txCount: 0})
txHistoryDefault == [i \in 1..INITIAL_TX_HISTORY_COUNT |-> HistoryState(0, 0, 0)]

(***************************************************************************)
(* Strings as sequences of characters                                      *)
(***************************************************************************)
RECURSIVE firstToken(_)
\* version.split(" ")[0]
firstToken(str) ==
    IF str = <<>> \/ Head(str) = " " THEN <<>>
    ELSE <<Head(str)>> \o firstToken(Tail(str))

(***************************************************************************)
(* State of App                                                            *)
(***************************************************************************)
currentDataDefault ==
    [block |-> 0, chainType |-> "", connections |-> 0,
     epoch |-> 0, epochIndex |-> 0, epochLength |-> 0,
     historyState |-> HistoryState(0, 0, 0),
     minFeeRate |-> 0, nodeVersion |-> <<>>,
     orphan |-> 0, pending |-> 0, proposed |-> 0,
     targetEpoch |-> 0, targetTime |-> Fin(0, 0),
     totalTxCycles |-> 0, txSize |-> 0]

settingsDefault == [ckbRpcUrl |-> "http://127.0.0.1:8114", ckbRpcPublic |-> FALSE]

settingsNotLoaded == [ckbRpcUrl |-> "", ckbRpcPublic |-> FALSE]

\* what LocalStorage or the settings dialog can hold
SettingsValues ==
    {settingsDefault, [ckbRpcUrl |-> "", ckbRpcPublic |-> FALSE],
     [ckbRpcUrl |-> "https://mainnet.ckbapp.dev/", ckbRpcPublic |-> TRUE]}

(***************************************************************************)
(* What the node may answer                                                *)
(***************************************************************************)
tipHeader(number, epochNumber, epochIndex, epochLength) ==
    [number |-> number, epoch |-> PackEpoch(epochNumber, epochIndex, epochLength)]

\* get_tip_header results: a block shortly before a halving, a block right
\* after it, and a header whose epoch field is all zero (epochLength = 0)
TipHeaders ==
    {tipHeader(1, 8759, 1799, 1800), tipHeader(2, 8760, 0, 1800),
     tipHeader(2, 0, 0, 0)}

\* decodeEpoch of every tip header, evaluated once
TipPositions == [t \in TipHeaders |-> decodeEpoch(t.epoch)]

\* targetEpoch and targetDuration of every tip header, evaluated once
TipTargets ==
    [t \in TipHeaders |->
        LET pos         == TipPositions[t]
            targetEpoch == calcTargetEpoch(pos.epoch)
        IN  [targetEpoch |-> targetEpoch,
             targetDuration |-> calcTargetDuration(targetEpoch, pos.epoch,
                                                   pos.epochIndex, pos.epochLength)]]

\* get_blockchain_info results
ChainInfos == {[chain |-> "ckb"]}

\* tx_pool_info results
PoolInfos ==
    {[orphan |-> 1, pending |-> 2, proposed |-> 3, total_tx_cycles |-> 4,
      total_tx_size |-> 5, tx_size_limit |-> 6, min_fee_rate |-> 7]}

\* local_node_info results
NodeInfos ==
    {[connections |-> 8, version |-> <<"0", ".", "1", " ", "(", "a", ")">>]}

\* get_block_by_number results: the transactions and their cycles
BlockResults ==
    {[transactions |-> <<"tx0", "tx1">>, cycles |-> <<5, 7>>]}

RECURSIVE sumCycles(_)
\* cyclesArray.map(Number).reduce((a, b) => a+b, 0)
sumCycles(cyclesArray) ==
    IF cyclesArray = <<>> THEN 0 ELSE Head(cyclesArray) + sumCycles(Tail(cyclesArray))

(***************************************************************************)
(* The batched response: an array of {id, result} objects in any order; an *)
(* object with ok = FALSE carries an error instead of a result             *)
(***************************************************************************)
\* orders in which the node returns the four answers
ResponseOrders == {<<1, 2, 3, 4>>, <<4, 3, 2, 1>>}

\* ids whose answer is an error object (0: none)
ErrorIds == {0, 1, 4}

resultOf(id, tip, chain, pool, node) ==
    IF id = 1 THEN tip ELSE IF id = 2 THEN chain ELSE IF id = 3 THEN pool ELSE node

batchResults(order, errorId, tip, chain, pool, node) ==
    [i \in 1..Len(order) |->
        [id |-> order[i], ok |-> order[i] # errorId,
         result |-> resultOf(order[i], tip, chain, pool, node)]]

\* results.find((x)=>x.id===id)
findById(results, id) ==
    results[CHOOSE i \in 1..Len(results) :
                /\ results[i].id = id
                /\ \A j \in 1..(i - 1) : results[j].id # id]

\* variant: the answer to request id is looked for at place id of the array
batchDecodesInPlace(results, ckbRpcPublic) ==
    \A id \in (IF ckbRpcPublic THEN {1, 2, 3} ELSE {1, 2, 3, 4}) :
        /\ results[id].id = id
        /\ results[id].ok

\* the destructuring of the batched response does not throw
batchDecodes(results, ckbRpcPublic) ==
    \A id \in (IF ckbRpcPublic THEN {1, 2, 3} ELSE {1, 2, 3, 4}) :
        /\ \E i \in 1..Len(results) : results[i].id = id
        /\ findById(results, id).ok

\* variant: the version is cut and prefixed in public mode too (line 288
\* without its test of ckbRpcPublic)
decodeBatchVersionPrefixed(results, ckbRpcPublic, dateNow) ==
    LET tip   == findById(results, 1).result
        chain == findById(results, 2).result
        pool  == findById(results, 3).result
        pos   == TipPositions[tip]
        targetEpoch    == TipTargets[tip].targetEpoch
        targetDuration == TipTargets[tip].targetDuration
    IN  [block |-> tip.number,
         chainType |-> IF chain.chain = "ckb" THEN "Mainnet" ELSE "Testnet",
         connections |-> IF ckbRpcPublic THEN -1
                         ELSE findById(results, 4).result.connections,
         epoch |-> pos.epoch, epochIndex |-> pos.epochIndex,
         epochLength |-> pos.epochLength,
         historyState |-> HistoryState(0, 0, 0),
         minFeeRate |-> pool.tx_size_limit,
         nodeVersion |-> <<"v">> \o firstToken(IF ckbRpcPublic THEN <<"n", "/", "a">>
                                                ELSE findById(results, 4).result.version),
         orphan |-> pool.orphan, pending |-> pool.pending,
         proposed |-> pool.proposed,
         targetEpoch |-> targetEpoch,
         targetTime |-> calcTargetTime(dateNow, targetDuration),
         totalTxCycles |-> pool.total_tx_cycles, txSize |-> pool.total_tx_size]

\* lines 263-294 of updateData: every value decoded from the batched response
decodeBatch(results, ckbRpcPublic, dateNow) ==
    LET tip   == findById(results, 1).result
        chain == findById(results, 2).result
        pool  == findById(results, 3).result
        pos   == TipPositions[tip]
        targetEpoch    == TipTargets[tip].targetEpoch
        targetDuration == TipTargets[tip].targetDuration
    IN  [block |-> tip.number,
         chainType |-> IF chain.chain = "ckb" THEN "Mainnet" ELSE "Testnet",
         connections |-> IF ckbRpcPublic THEN -1
                         ELSE findById(results, 4).result.connections,
         epoch |-> pos.epoch, epochIndex |-> pos.epochIndex,
         epochLength |-> pos.epochLength,
         historyState |-> HistoryState(0, 0, 0),
         minFeeRate |-> pool.tx_size_limit,
         nodeVersion |-> IF ckbRpcPublic THEN <<"n", "/", "a">>
                         ELSE <<"v">> \o firstToken(findById(results, 4).result.version),
         orphan |-> pool.orphan, pending |-> pool.pending,
         proposed |-> pool.proposed,
         targetEpoch |-> targetEpoch,
         targetTime |-> calcTargetTime(dateNow, targetDuration),
         totalTxCycles |-> pool.total_tx_cycles, txSize |-> pool.total_tx_size]

\* line 317 of updateData
decodeHistoryState(blockNumber, blockResult) ==
    HistoryState(blockNumber, sumCycles(blockResult.cycles),
                 Len(blockResult.transactions))

\* variant: line 333 is left out, the sample of the base snapshot is kept
newCurrentDataKeepsSample(base, decoded, historyState, updateTargets) ==
    [base EXCEPT
        !.block = decoded.block, !.epoch = decoded.epoch,
        !.epochIndex = decoded.epochIndex, !.epochLength = decoded.epochLength,
        !.chainType = decoded.chainType, !.connections = decoded.connections,
        !.nodeVersion = decoded.nodeVersion, !.orphan = decoded.orphan,
        !.pending = decoded.pending, !.proposed = decoded.proposed,
        !.totalTxCycles = decoded.totalTxCycles, !.txSize = decoded.txSize,
        !.minFeeRate = decoded.minFeeRate,
        !.targetEpoch  = IF updateTargets THEN decoded.targetEpoch ELSE base.targetEpoch,
        !.targetTime   = IF updateTargets THEN decoded.targetTime ELSE base.targetTime]

\* variant: line 324 is left out, the chainType of the base snapshot is kept
newCurrentDataKeepsChainType(base, decoded, historyState, updateTargets) ==
    [base EXCEPT
        !.block = decoded.block, !.epoch = decoded.epoch,
        !.epochIndex = decoded.epochIndex, !.epochLength = decoded.epochLength,
        !.connections = decoded.connections,
        !.nodeVersion = decoded.nodeVersion, !.orphan = decoded.orphan,
        !.pending = decoded.pending, !.proposed = decoded.proposed,
        !.totalTxCycles = decoded.totalTxCycles, !.txSize = decoded.txSize,
        !.minFeeRate = decoded.minFeeRate, !.historyState = historyState,
        !.targetEpoch  = IF updateTargets THEN decoded.targetEpoch ELSE base.targetEpoch,
        !.targetTime   = IF updateTargets THEN decoded.targetTime ELSE base.targetTime]

\* lines 319-339 of updateData: the object handed to setCurrentData, a copy
\* of the currentData argument with the fields of lines 320-338 assigned
newCurrentData(base, decoded, historyState, updateTargets) ==
    [base EXCEPT
        !.block = decoded.block, !.epoch = decoded.epoch,
        !.epochIndex = decoded.epochIndex, !.epochLength = decoded.epochLength,
        !.chainType = decoded.chainType, !.connections = decoded.connections,
        !.nodeVersion = decoded.nodeVersion, !.orphan = decoded.orphan,
        !.pending = decoded.pending, !.proposed = decoded.proposed,
        !.totalTxCycles = decoded.totalTxCycles, !.txSize = decoded.txSize,
        !.minFeeRate = decoded.minFeeRate, !.historyState = historyState,
        !.targetEpoch  = IF updateTargets THEN decoded.targetEpoch ELSE base.targetEpoch,
        !.targetTime   = IF updateTargets THEN decoded.targetTime ELSE base.targetTime]

\* the two messages of the catch block
TOAST_NETWORK == "Network Error: Do you have the correct Node RPC URL configured in the Settings?"

TOAST_GENERIC == "Error: An error occurred during the updating of the node data."

\* an Error object; its message is kept as its sequence of words
Error(name, message) == [name |-> name, message |-> message]

\* what fetch, or the reading of the body in res.json(), rejects with when
\* the transport fails: a TypeError whose message is the browser's (Firefox,
\* Chromium, Chromium when the connection is lost while the body is read,
\* WebKit)
FetchRejections ==
    {Error("TypeError", <<"NetworkError", "when", "attempting", "to", "fetch", "resource.">>),
     Error("TypeError", <<"Failed", "to", "fetch">>),
     Error("TypeError", <<"network", "error">>),
     Error("TypeError", <<"Load", "failed">>)}

\* res.json() on a body that is not JSON
JsonError == Error("SyntaxError", <<"Unexpected", "token">>)

\* the destructuring of an answer that carries no result
DestructureError ==
    Error("TypeError", <<"Cannot", "read", "properties", "of", "undefined">>)

\* message.startsWith(prefix)
startsWith(message, prefix) ==
    /\ Len(prefix) <= Len(message)
    /\ SubSeq(message, 1, Len(prefix)) = prefix

\* the catch block of updateData: the message shown for an error
catchToast(error) ==
    IF /\ error.name = "TypeError"
       /\ \/ startsWith(error.message, <<"NetworkError">>)
          \/ startsWith(error.message, <<"Failed", "to", "fetch">>)
    THEN TOAST_NETWORK
    ELSE TOAST_GENERIC

(***************************************************************************)
(* Polls in flight.  A poll keeps the arguments updateData was called with *)
(* (the settings and the currentData of the render that called it).        *)
(***************************************************************************)
\* jsonRpcRequest1: the batch of the first fetch, whatever the settings are
jsonRpcRequest1 ==
    <<[id |-> 1, method |-> "get_tip_header"],
      [id |-> 2, method |-> "get_blockchain_info"],
      [id |-> 3, method |-> "tx_pool_info"],
      [id |-> 4, method |-> "local_node_info"]>>

HexDigits ==
    <<"0", "1", "2", "3", "4", "5", "6", "7", "8", "9", "a", "b", "c", "d", "e", "f">>

RECURSIVE toString16(_)
\* blockNumber.toString(16)
toString16(n) ==
    IF n < 16 THEN <<HexDigits[n + 1]>>
    ELSE toString16(n \div 16) \o <<HexDigits[(n % 16) + 1]>>

\* jsonRpcRequest5: the single request of the second fetch; of its params
\* the block number, "0x" + blockNumber.toString(16), is kept
jsonRpcRequest5(blockNumber) ==
    <<[id |-> 5, method |-> "get_block_by_number",
       params |-> <<"0", "x">> \o toString16(blockNumber)]>>

\* variant: the second request is posted with the first one, for the block
\* of the snapshot the poll was called with
newPollSendsBoth(loop, pollSettings, base, updateTargets) ==
    [loop |-> loop, settings |-> pollSettings, base |-> base,
     updateTargets |-> updateTargets, stage |-> "batch",
     decoded |-> currentDataDefault,
     sent |-> <<jsonRpcRequest1, jsonRpcRequest5(base.block)>>]

\* a poll at its first await; sent holds the bodies of its fetches so far
newPoll(loop, pollSettings, base, updateTargets) ==
    [loop |-> loop, settings |-> pollSettings, base |-> base,
     updateTargets |-> updateTargets, stage |-> "batch",
     decoded |-> currentDataDefault, sent |-> <<jsonRpcRequest1>>]

\* variant: the test of settings.ckbRpcUrl is left out
startPollAnyUrl(loop, pollSettings, base, updateTargets) ==
    Append(polls, newPoll(loop, pollSettings, base, updateTargets))

\* updateData up to its first await: nothing is sent without a URL
startPoll(loop, pollSettings, base, updateTargets) ==
    IF pollSettings.ckbRpcUrl = ""
    THEN polls
    ELSE Append(polls, newPoll(loop, pollSettings, base, updateTargets))

\* the count of polls started, after a loop called updateData
startedAfter(pollSettings) ==
    IF pollSettings.ckbRpcUrl = "" THEN started ELSE started + 1

\* room, within the bounds, for the poll the handler would start
canStart(pollSettings) ==
    \/ pollSettings.ckbRpcUrl = ""
    \/ (Len(polls) < MaxInFlight /\ started < MaxPolls)

removePoll(i) == [j \in 1..(Len(polls) - 1) |-> IF j < i THEN polls[j] ELSE polls[j + 1]]

NoCall == [op |-> "none"]

Init ==
    /\ settings = settingsNotLoaded
    /\ currentData = currentDataDefault
    /\ txHistory = txHistoryDefault
    /\ countdown = [kind |-> "empty", value |-> NoTimeValue]
    /\ targetString = [kind |-> "empty", value |-> Fin(0, 0)]
    /\ polls = <<>>
    /\ now = 1
    /\ toasts = <<>>
    /\ started = 0
    /\ call = NoCall

\* setSettings (settings loaded at mount, or saved from the dialog) and the
\* effect on [settings]: updateData(settings, currentDataDefault, setCurrentData)
SetSettings(newSettings) ==
    /\ started < MaxPolls
    /\ canStart(newSettings)
    /\ settings' = newSettings
    /\ polls' = startPoll("initial", newSettings, currentDataDefault, TRUE)
    /\ started' = started + 1
    /\ UNCHANGED <<currentData, txHistory, countdown, targetString, now, toasts, call>>

\* the REFRESH_DELAY interval
FastLoop ==
    /\ canStart(settings)
    /\ polls' = startPoll("fast", settings, currentData, FALSE)
    /\ started' = startedAfter(settings)
    /\ txHistory' = updateTxHistoryData(currentData.historyState, txHistory)
    /\ UNCHANGED <<settings, currentData, countdown, targetString, now, toasts, call>>

\* the FULL_REFRESH_DELAY interval
SlowLoop ==
    /\ canStart(settings)
    /\ polls' = startPoll("slow", settings, currentData, TRUE)
    /\ started' = startedAfter(settings)
    /\ UNCHANGED <<settings, currentData, txHistory, countdown, targetString,
                   now, toasts, call>>

\* variant: the tick also hands the published sample to updateTxHistoryData
TickLoopAppends ==
    /\ countdown' = generateCountdown(currentData.targetTime, now)
    /\ targetString' = generateTargetString(currentData.targetEpoch,
                                            currentData.targetTime)
    /\ txHistory' = updateTxHistoryData(currentData.historyState, txHistory)
    /\ UNCHANGED <<settings, currentData, polls, now, toasts, started, call>>

\* the TICK_DELAY interval
TickLoop ==
    /\ countdown' = generateCountdown(currentData.targetTime, now)
    /\ targetString' = generateTargetString(currentData.targetEpoch,
                                            currentData.targetTime)
    /\ UNCHANGED <<settings, currentData, txHistory, polls, now, toasts, started, call>>

\* the batched response arrives and decodes: the poll goes on to request 5
BatchResolves(i) ==
    /\ polls[i].stage = "batch"
    /\ \E order \in ResponseOrders, errorId \in ErrorIds, tip \in TipHeaders,
          chain \in ChainInfos, pool \in PoolInfos, node \in NodeInfos :
          LET results == batchResults(order, errorId, tip, chain, pool, node)
              decoded == decodeBatch(results, polls[i].settings.ckbRpcPublic, now)
          IN  /\ batchDecodes(results, polls[i].settings.ckbRpcPublic)
              /\ polls' = [polls EXCEPT
                             ![i].stage = "block",
                             ![i].sent = Append(@, jsonRpcRequest5(decoded.block)),
                             ![i].decoded = decoded]
    /\ UNCHANGED <<settings, currentData, txHistory, countdown, targetString,
                   now, toasts, started, call>>

\* variant: the catch block hands the block the poll had decoded to
\* updateTxHistoryData
pollThrowsAppends(i, message) ==
    /\ Len(toasts) < MaxToasts
    /\ toasts' = Append(toasts, message)
    /\ polls' = removePoll(i)
    /\ txHistory' = updateTxHistoryData(HistoryState(polls[i].decoded.block, 0, 0),
                                        txHistory)
    /\ UNCHANGED <<settings, currentData, countdown, targetString, now, started, call>>

\* the catch block: the poll ends with one toast
pollThrows(i, message) ==
    /\ Len(toasts) < MaxToasts
    /\ toasts' = Append(toasts, message)
    /\ polls' = removePoll(i)
    /\ UNCHANGED <<settings, currentData, txHistory, countdown, targetString,
                   now, started, call>>

\* fetch of the batch rejects, or an answer of the batch carries no result
BatchFails(i) ==
    /\ polls[i].stage = "batch"
    /\ \/ \E error \in FetchRejections \cup {JsonError} : pollThrows(i, catchToast(error))
       \/ /\ \E order \in ResponseOrders, errorId \in ErrorIds :
                \E tip \in TipHeaders, chain \in ChainInfos, pool \in PoolInfos,
                   node \in NodeInfos :
                   ~batchDecodes(batchResults(order, errorId, tip, chain, pool, node),
                                 polls[i].settings.ckbRpcPublic)
          /\ pollThrows(i, catchToast(DestructureError))

\* variant: a poll whose block is older than the published one is dropped
BlockResolvesIfNewer(i) ==
    /\ polls[i].stage = "block"
    /\ \E blockResult \in BlockResults :
          currentData' = IF polls[i].decoded.block < currentData.block
                         THEN currentData
                         ELSE newCurrentData(polls[i].base, polls[i].decoded,
                                  decodeHistoryState(polls[i].decoded.block, blockResult),
                                  polls[i].updateTargets)
    /\ polls' = removePoll(i)
    /\ UNCHANGED <<settings, txHistory, countdown, targetString, now, toasts,
                   started, call>>

\* the answer to get_block_by_number arrives: the poll publishes
BlockResolves(i) ==
    /\ polls[i].stage = "block"
    /\ \E blockResult \in BlockResults :
          currentData' = newCurrentData(polls[i].base, polls[i].decoded,
                             decodeHistoryState(polls[i].decoded.block, blockResult),
                             polls[i].updateTargets)
    /\ polls' = removePoll(i)
    /\ UNCHANGED <<settings, txHistory, countdown, targetString, now, toasts,
                   started, call>>

\* variant: setCurrentData is called before the second request is awaited,
\* so a poll that fails there has already published what it decoded
BlockFailsAfterPublishing(i) ==
    /\ polls[i].stage = "block"
    /\ Len(toasts) < MaxToasts
    /\ toasts' = Append(toasts, TOAST_GENERIC)
    /\ polls' = removePoll(i)
    /\ currentData' = newCurrentData(polls[i].base, polls[i].decoded,
                                     currentData.historyState, polls[i].updateTargets)
    /\ UNCHANGED <<settings, txHistory, countdown, targetString, now, started, call>>

\* fetch of get_block_by_number rejects, or its answer carries no result
BlockFails(i) ==
    /\ polls[i].stage = "block"
    /\ \E error \in FetchRejections \cup {JsonError, DestructureError} :
          pollThrows(i, catchToast(error))

\* time passes
Tock ==
    /\ now < MaxNow
    /\ now' = now + 1
    /\ UNCHANGED <<settings, currentData, txHistory, countdown, targetString,
                   polls, toasts, started, call>>

Next ==
    \/ \E newSettings \in SettingsValues : SetSettings(newSettings)
    \/ FastLoop
    \/ SlowLoop
    \/ TickLoop
    \/ \E i \in 1..Len(polls) : BatchResolves(i)
    \/ \E i \in 1..Len(polls) : BatchFails(i)
    \/ \E i \in 1..Len(polls) : BlockResolves(i)
    \/ \E i \in 1..Len(polls) : BlockFails(i)
    \/ Tock

Spec == Init /\ [][Next]_vars

(***************************************************************************)
(* updateTxHistoryData as a function: any sample, applied to buffers that  *)
(* start empty or as the start-up buffer                                   *)
(***************************************************************************)
\* Highest blockNumber among the samples.
MaxSampleBlock == 4

\* HistoryState|null arguments
Samples ==
    {HistoryState(b, c, c) : b \in 0..MaxSampleBlock, c \in {0, 1}} \cup {Null}

InitBuffer ==
    /\ settings = settingsNotLoaded
    /\ currentData = currentDataDefault
    /\ txHistory \in {<<>>, txHistoryDefault}
    /\ countdown = [kind |-> "empty", value |-> NoTimeValue]
    /\ targetString = [kind |-> "empty", value |-> Fin(0, 0)]
    /\ polls = <<>>
    /\ now = 1
    /\ toasts = <<>>
    /\ started = 0
    /\ call = NoCall

\* updateTxHistoryData(sample, txHistory, setTxHistory)
AppendSample(sample) ==
    /\ txHistory' = updateTxHistoryData(sample, txHistory)
    /\ call' = [op |-> "append", sample |-> sample, before |-> txHistory]
    /\ UNCHANGED <<settings, currentData, countdown, targetString, polls, now,
                   toasts, started>>

NextBuffer == \E sample \in Samples : AppendSample(sample)

SpecBuffer == InitBuffer /\ [][NextBuffer]_vars

(***************************************************************************)
(* The epoch decoder as a function of packed values built from fields      *)
(***************************************************************************)
EpochNumbers == {0, 1, 255, 256, 8759, 8760, 17520, 65535, 65536, 16777215}

EpochLengths == {1, 2, 256, 1800, 65535}

EpochIndexes == {0, 1, 255, 1799, 65534}

\* lines 273-276 applied to epochNumber | (epochIndex << 24) | (epochLength << 40)
DecodePacked(epochNumber, epochIndex, epochLength) ==
    /\ call = NoCall
    /\ call' = [op |-> "decode", epochNumber |-> epochNumber,
                epochIndex |-> epochIndex, epochLength |-> epochLength,
                out |-> decodeEpoch(PackEpoch(epochNumber, epochIndex, epochLength))]
    /\ UNCHANGED <<settings, currentData, txHistory, countdown, targetString,
                   polls, now, toasts, started>>

NextCodec ==
    \E epochNumber \in EpochNumbers, epochLength \in EpochLengths,
       epochIndex \in EpochIndexes :
        /\ epochIndex < epochLength
        /\ DecodePacked(epochNumber, epochIndex, epochLength)

SpecCodec == Init /\ [][NextCodec]_vars

(***************************************************************************)
(* The halving projection as a function of the decoded position and the    *)
(* clock                                                                   *)
(***************************************************************************)
\* (epochIndex, epochLength) of the positions projected; two of them have
\* epochLength = 0, three lie around the end of the hide delay (1/24 epoch)
ProjectionPositions ==
    {<<0, 1>>, <<0, 1800>>, <<1, 1800>>, <<900, 1800>>, <<1799, 1800>>,
     <<1, 3>>, <<2, 3>>, <<65534, 65535>>, <<0, 0>>, <<5, 0>>,
     <<74, 1800>>, <<75, 1800>>, <<76, 1800>>, <<1, 65535>>}

\* values of Date.now()
ProjectionClocks == {1, 1999999999}

\* lines 279-283 applied to a decoded position, and generateCountdown
\* applied to the projected targetTime at the same Date.now()
Project(epochNumber, epochIndex, epochLength, dateNow) ==
    /\ call = NoCall
    /\ LET targetEpoch    == calcTargetEpoch(epochNumber)
           targetDuration == calcTargetDuration(targetEpoch, epochNumber,
                                                epochIndex, epochLength)
       IN  call' = [op |-> "project", epochNumber |-> epochNumber,
                    epochIndex |-> epochIndex, epochLength |-> epochLength,
                    now |-> dateNow, targetEpoch |-> targetEpoch,
                    targetDuration |-> targetDuration,
                    targetTime |-> calcTargetTime(dateNow, targetDuration),
                    countdown |-> generateCountdown(
                                      calcTargetTime(dateNow, targetDuration), dateNow)]
    /\ UNCHANGED <<settings, currentData, txHistory, countdown, targetString,
                   polls, now, toasts, started>>

NextProjection ==
    \E epochNumber \in EpochNumbers, position \in ProjectionPositions,
       dateNow \in ProjectionClocks :
        Project(epochNumber, position[1], position[2], dateNow)

SpecProjection == Init /\ [][NextProjection]_vars

(***************************************************************************)
(* The countdown formatter under the tick loop: a target that is held      *)
(* while the clock advances, and calculateTimeValue as a function          *)
(***************************************************************************)
\* the full cycle less the hide delay, in seconds: halvingMessageWindow
halvingMessageWindowS ==
    EPOCHS_PER_HALVING * HOURS_PER_EPOCH * SECONDS_PER_HOUR - HALVING_MESSAGE_HIDE_DELAY_S

\* the halving moment of the formatter runs, in seconds
HalvingMomentS == 1000

\* held targetTime values: none, the halving moment, the targets that lie
\* the message window and a full cycle after it, a target 90,061,000 ms
\* after it, and the two non-finite values the projection can publish
FormatterTargets ==
    {Fin(0, 0), Fin(HalvingMomentS, 0), Fin(HalvingMomentS + 90061, 0),
     Fin(HalvingMomentS + halvingMessageWindowS, 0),
     Fin(HalvingMomentS + halvingMessageWindowS + HALVING_MESSAGE_HIDE_DELAY_S, 0),
     NaN, NegInfinity}

\* values of Date.now() in milliseconds, around the halving moment and
\* around the end of the hide delay after it
FormatterClocks ==
    {1, 999000, 999999, 1000000, 1000001, 1599999, 1600000, 1600001}

\* timeFromNow arguments of calculateTimeValue: <<seconds, milliseconds>>
FormatterDurations ==
    {<<0, 1>>, <<0, 999>>, <<1, 0>>, <<59, 999>>, <<60, 0>>, <<3599, 999>>,
     <<3600, 0>>, <<86399, 999>>, <<86400, 0>>, <<90061, 0>>, <<2591999, 999>>,
     <<2592000, 0>>, <<2682061, 500>>, <<126143399, 999>>, <<2000000000, 0>>}

InitFormatter ==
    /\ settings = settingsNotLoaded
    /\ \E targetTime \in FormatterTargets :
          currentData = [currentDataDefault EXCEPT
                            !.targetEpoch = IF targetTime = Fin(0, 0) THEN 0
                                            ELSE EPOCHS_PER_HALVING,
                            !.targetTime = targetTime]
    /\ txHistory = txHistoryDefault
    /\ countdown = [kind |-> "empty", value |-> NoTimeValue]
    /\ targetString = [kind |-> "empty", value |-> Fin(0, 0)]
    /\ polls = <<>>
    /\ now = 1
    /\ toasts = <<>>
    /\ started = 0
    /\ call = NoCall

\* time passes between two ticks
AdvanceClock ==
    /\ \E later \in FormatterClocks : later > now /\ now' = later
    /\ UNCHANGED <<settings, currentData, txHistory, countdown, targetString,
                   polls, toasts, started, call>>

\* the TICK_DELAY interval, with the arguments of generateCountdown kept
FormatTick ==
    /\ countdown' = generateCountdown(currentData.targetTime, now)
    /\ targetString' = generateTargetString(currentData.targetEpoch,
                                            currentData.targetTime)
    /\ call' = [op |-> "format", targetTime |-> currentData.targetTime, now |-> now]
    /\ UNCHANGED <<settings, currentData, txHistory, polls, now, toasts, started>>

\* calculateTimeValue(timeFromNow)
Breakdown(timeFromNow) ==
    /\ call' = [op |-> "breakdown", s |-> timeFromNow[1], ms |-> timeFromNow[2],
                out |-> calculateTimeValue(timeFromNow[1])]
    /\ UNCHANGED <<settings, currentData, txHistory, countdown, targetString,
                   polls, now, toasts, started>>

NextFormatter ==
    \/ AdvanceClock
    \/ FormatTick
    \/ \E timeFromNow \in FormatterDurations : Breakdown(timeFromNow)

SpecFormatter == InitFormatter /\ [][NextFormatter]_vars

(***************************************************************************)
(* The decoding of the batched response as a function of the response     *)
(* array: the same four answers in every order                            *)
(***************************************************************************)
\* every order of the four answers
BatchOrders ==
    {order \in [1..4 -> 1..4] : \A a, b \in 1..4 : a # b => order[a] # order[b]}

\* lines 262-294 applied to one response array
DecodeResponse(order, errorId, tip, ckbRpcPublic) ==
    /\ call = NoCall
    /\ \E chain \in ChainInfos, pool \in PoolInfos, node \in NodeInfos :
          LET results == batchResults(order, errorId, tip, chain, pool, node)
              decodes == batchDecodes(results, ckbRpcPublic)
          IN  call' = [op |-> "batch", order |-> order, errorId |-> errorId,
                       tip |-> tip, chain |-> chain, pool |-> pool, node |-> node,
                       ckbRpcPublic |-> ckbRpcPublic, decodes |-> decodes,
                       out |-> IF decodes THEN decodeBatch(results, ckbRpcPublic, now)
                               ELSE currentDataDefault]
    /\ UNCHANGED <<settings, currentData, txHistory, countdown, targetString,
                   polls, now, toasts, started>>

NextBatch ==
    \E order \in BatchOrders, errorId \in 0..4, tip \in TipHeaders,
       ckbRpcPublic \in BOOLEAN :
        DecodeResponse(order, errorId, tip, ckbRpcPublic)

SpecBatch == Init /\ [][NextBatch]_vars

(***************************************************************************)
(* The scheduler over an unbounded run: the settings are loaded once, the  *)
(* two polling intervals fire for ever, polls fail and succeed any number  *)
(* of times.  The clock and the tick loop are left out.                    *)
(***************************************************************************)
\* Polls that may be in flight at once in the unbounded run.
MaxLiveInFlight == 1

\* variant: the intervals stop firing while an error is shown
liveCanStartUntilError == Len(polls) < MaxLiveInFlight /\ toasts = <<>>

\* room, within the bound on polls in flight, for the poll of a firing
liveCanStart == Len(polls) < MaxLiveInFlight

\* the mount effect: settings read from LocalStorage, with a URL
LoadSettings ==
    /\ settings = settingsNotLoaded
    /\ \E newSettings \in SettingsValues :
          newSettings.ckbRpcUrl # "" /\ SetSettings(newSettings)

\* what a firing saw: whether an error was shown, and the published block
firing(loop) ==
    [op |-> "fired", loop |-> loop, afterFailure |-> toasts # <<>>,
     block |-> currentData.block]

\* the REFRESH_DELAY interval
LiveFastLoop ==
    /\ liveCanStart
    /\ polls' = startPoll("fast", settings, currentData, FALSE)
    /\ txHistory' = updateTxHistoryData(currentData.historyState, txHistory)
    /\ call' = firing("fast")
    /\ UNCHANGED <<settings, currentData, countdown, targetString, now, toasts, started>>

\* the FULL_REFRESH_DELAY interval
LiveSlowLoop ==
    /\ liveCanStart
    /\ polls' = startPoll("slow", settings, currentData, TRUE)
    /\ call' = firing("slow")
    /\ UNCHANGED <<settings, currentData, txHistory, countdown, targetString,
                   now, toasts, started>>

\* the ToastContainer closes the oldest toast
ToastCloses ==
    /\ toasts # <<>>
    /\ toasts' = Tail(toasts)
    /\ UNCHANGED <<settings, currentData, txHistory, countdown, targetString,
                   polls, now, started, call>>

\* a request of some poll is answered, or fails
BatchAnswered == \E i \in 1..Len(polls) : BatchResolves(i) \/ BatchFails(i)

BlockAnswered == \E i \in 1..Len(polls) : BlockResolves(i) \/ BlockFails(i)

NextLive ==
    \/ LoadSettings
    \/ LiveFastLoop
    \/ LiveSlowLoop
    \/ \E i \in 1..Len(polls) : BatchResolves(i)
    \/ \E i \in 1..Len(polls) : BatchFails(i)
    \/ \E i \in 1..Len(polls) : BlockResolves(i)
    \/ \E i \in 1..Len(polls) : BlockFails(i)
    \/ ToastCloses

\* the settings are loaded, the timers keep firing and every request is
\* answered or fails in the end
SpecLive ==
    /\ Init
    /\ [][NextLive]_vars
    /\ WF_vars(LoadSettings)
    /\ WF_vars(LiveFastLoop)
    /\ WF_vars(LiveSlowLoop)
    /\ WF_vars(BatchAnswered)
    /\ WF_vars(BlockAnswered)

(***************************************************************************)
(* Properties                                                              *)
(***************************************************************************)
targetOf(data) == <<data.targetEpoch, data.targetTime>>

blockNumbers(history) == [i \in 1..Len(history) |-> history[i].blockNumber]

\* the step is the publication of poll i
publishes(i) == i \in 1..Len(polls) /\ BlockResolves(i)

\* C1: the published target changes only when a poll with target
\* recomputation (the initial poll or a slow-loop poll) publishes, and a
\* publication of a fast-loop poll leaves the published target as it was.
C1_TargetChangesOnlyOnRecomputation ==
    [][/\ (targetOf(currentData') # targetOf(currentData)
            => \E i \in 1..Len(polls) : polls[i].updateTargets /\ publishes(i))
       /\ \A i \in 1..Len(polls) :
            (~polls[i].updateTargets /\ publishes(i))
                => targetOf(currentData') = targetOf(currentData)]_vars

\* C2: a step in which a poll fails (its catch block shows a toast) leaves
\* the snapshot, its target and the tx history as they were.
C2_FailedPollPublishesNothing ==
    [][toasts' # toasts
        => /\ currentData' = currentData
           /\ txHistory' = txHistory
           /\ Len(polls') = Len(polls) - 1]_vars

\* a poll failed after a snapshot had been published, at the second request
C2_Witness ==
    /\ toasts # <<>>
    /\ currentData # currentDataDefault
    /\ started > Len(polls) + 1

\* C3 as stated: no two elements of the tx history share a blockNumber.
C3_NoTwoElementsShareBlockNumber ==
    \A i, j \in 1..Len(txHistory) :
        i # j => txHistory[i].blockNumber # txHistory[j].blockNumber

\* C3: no two elements of the tx history with a non-zero blockNumber share
\* their blockNumber (the placeholders of the start-up buffer all carry 0).
C3_NoTwoSamplesShareBlockNumber ==
    \A i, j \in 1..Len(txHistory) :
        (i # j /\ txHistory[i].blockNumber # 0)
            => txHistory[i].blockNumber # txHistory[j].blockNumber

\* two samples are held and the published sample is one of them, so the
\* next firing of the fast loop offers a blockNumber already present
C3_Witness ==
    /\ \E i, j \in 1..Len(txHistory) :
          i # j /\ txHistory[i].blockNumber # 0 /\ txHistory[j].blockNumber # 0
    /\ includesBlockNumber(txHistory, currentData.historyState.blockNumber)
    /\ currentData.historyState.blockNumber # 0

\* C4: the tx history never holds more than MAX_TX_HISTORY_COUNT elements.
C4_LengthAtMostCapacity == Len(txHistory) <= MAX_TX_HISTORY_COUNT

\* the buffer is full and has already dropped an element
C4_Witness ==
    /\ Len(txHistory) = MAX_TX_HISTORY_COUNT
    /\ Cardinality({i \in 1..Len(txHistory) : txHistory[i].blockNumber # 0})
          > MAX_TX_HISTORY_COUNT - INITIAL_TX_HISTORY_COUNT

\* the sample of the last call is one that updateTxHistoryData must add
addsSample ==
    /\ call.op = "append"
    /\ call.sample # Null
    /\ call.sample.blockNumber # 0
    /\ \A i \in 1..Len(call.before) :
          call.before[i].blockNumber # call.sample.blockNumber

\* C5: a new sample with a non-zero blockNumber is added at the end; a full
\* buffer first loses its element at index 0, a shorter one loses nothing.
\* Blocks 1..N+1 appended to the empty buffer of capacity N leave 2..N+1.
C5_AppendDropsOldestWhenFull ==
    addsSample =>
        /\ Len(call.before) = MAX_TX_HISTORY_COUNT
            => /\ Len(txHistory) = MAX_TX_HISTORY_COUNT
               /\ txHistory[MAX_TX_HISTORY_COUNT] = call.sample
               /\ \A i \in 1..(MAX_TX_HISTORY_COUNT - 1) :
                     txHistory[i] = call.before[i + 1]
        /\ Len(call.before) < MAX_TX_HISTORY_COUNT
            => /\ Len(txHistory) = Len(call.before) + 1
               /\ txHistory[Len(txHistory)] = call.sample
               /\ \A i \in 1..Len(call.before) : txHistory[i] = call.before[i]
        /\ (/\ blockNumbers(call.before) = [i \in 1..MAX_TX_HISTORY_COUNT |-> i]
            /\ call.sample.blockNumber = MAX_TX_HISTORY_COUNT + 1)
            => blockNumbers(txHistory) = [i \in 1..MAX_TX_HISTORY_COUNT |-> i + 1]

\* blocks 1..N were held and block N+1 was appended
C5_Witness ==
    /\ addsSample
    /\ blockNumbers(call.before) = [i \in 1..MAX_TX_HISTORY_COUNT |-> i]
    /\ call.sample.blockNumber = MAX_TX_HISTORY_COUNT + 1
    /\ Len(txHistory) = MAX_TX_HISTORY_COUNT

\* C6: a missing sample, a sample with blockNumber 0 and a sample whose
\* blockNumber is already held leave the buffer as it was.
C6_AppendIsNoOpForSeenOrEmpty ==
    (call.op = "append" /\ ~addsSample) => txHistory = call.before

\* a full buffer of samples was offered a different sample of a block it holds
C6_Witness ==
    /\ call.op = "append"
    /\ call.sample # Null
    /\ call.sample.blockNumber # 0
    /\ Len(call.before) = MAX_TX_HISTORY_COUNT
    /\ \E i \in 1..Len(call.before) :
          /\ call.before[i].blockNumber = call.sample.blockNumber
          /\ call.before[i] # call.sample
    /\ \A i \in 1..Len(call.before) : call.before[i].blockNumber # 0

\* C7: after a sample was applied once, applying the same sample again
\* gives the same buffer.
C7_AppendIdempotent ==
    call.op = "append" => updateTxHistoryData(call.sample, txHistory) = txHistory

\* a sample was added to a full buffer
C7_Witness ==
    /\ addsSample
    /\ Len(call.before) = MAX_TX_HISTORY_COUNT
    /\ txHistory # call.before

\* C8: decoding the packed value built from (epochNumber, epochIndex,
\* epochLength) with epochIndex < epochLength returns these three values.
C8_DecodeRoundTrip ==
    call.op = "decode"
        => call.out = [epoch |-> call.epochNumber, epochIndex |-> call.epochIndex,
                       epochLength |-> call.epochLength]

\* the largest values of the three fields were decoded
C8_Witness ==
    /\ call.op = "decode"
    /\ call.epochNumber = 16777215
    /\ call.epochIndex = 65534
    /\ call.epochLength = 65535
    /\ call.out.epochLength = 65535

\* C9: the published position has epochLength > 0 and epochIndex < epochLength.
C9_PositionValid ==
    currentData.epochLength > 0 /\ currentData.epochIndex < currentData.epochLength

\* C10: no snapshot decoded from a tip header with epochLength = 0 is
\* published, and the published targetTime is never NaN or infinite.
C10_ZeroLengthNeverPublished ==
    /\ currentData.targetTime.k = "fin"
    /\ currentData # currentDataDefault => currentData.epochLength > 0

\* the duration the formula of C12 gives, in seconds and milliseconds:
\* floor(((targetEpoch - epochNumber) * epochLength - epochIndex)
\*       * HOURS_PER_EPOCH * 3,600,000 / epochLength)
exactTargetDuration(targetEpoch, epochNumber, epochIndex, epochLength) ==
    LET secondsPerEpoch == HOURS_PER_EPOCH * SECONDS_PER_HOUR
        a  == (targetEpoch - epochNumber) * epochLength - epochIndex
        aq == a \div epochLength
        ar == a % epochLength
        sq == (ar * secondsPerEpoch) \div epochLength
        sr == (ar * secondsPerEpoch) % epochLength
    IN  Fin(aq * secondsPerEpoch + sq, (sr * 1000) \div epochLength)

\* C11: the projected targetEpoch is the smallest multiple of
\* EPOCHS_PER_HALVING strictly greater than epochNumber (8759 gives 8760,
\* 8760 gives 17520).
C11_TargetEpochIsNextMultiple ==
    call.op = "project" =>
        /\ call.targetEpoch % EPOCHS_PER_HALVING = 0
        /\ call.targetEpoch - call.epochNumber > 0
        /\ call.targetEpoch - call.epochNumber <= EPOCHS_PER_HALVING
        /\ call.epochNumber = 8759 => call.targetEpoch = 8760
        /\ call.epochNumber = 8760 => call.targetEpoch = 17520

\* an epochNumber that is itself a multiple of EPOCHS_PER_HALVING was projected
C11_Witness ==
    /\ call.op = "project"
    /\ call.epochNumber = 8760
    /\ call.targetEpoch = 17520

\* C12: for a position with epochLength > 0 the projected duration is
\* floor(((targetEpoch - epochNumber) * epochLength - epochIndex)
\* * hoursPerEpoch * 3,600,000 / epochLength) milliseconds and targetTime is
\* now + that duration (14,400,000 ms for epoch 8759, index 0, length 1800).
C12_DurationIsExactFloor ==
    (call.op = "project" /\ call.epochLength > 0) =>
        /\ call.targetDuration =
              exactTargetDuration(call.targetEpoch, call.epochNumber,
                                  call.epochIndex, call.epochLength)
        /\ call.targetTime.k = "fin"
        /\ NumSub(call.targetTime, FromMs(call.now)) = call.targetDuration
        /\ (call.epochNumber = 8759 /\ call.epochIndex = 0 /\ call.epochLength = 1800)
              => call.targetDuration = Fin(14400, 0)

\* targetTime - dateNow > 0, for a finite targetTime
remainingPositive(targetTime, dateNow) ==
    \/ targetTime.s > dateNow \div 1000
    \/ (targetTime.s = dateNow \div 1000 /\ targetTime.ms > dateNow % 1000)

\* targetTime - dateNow < windowS seconds, for a finite targetTime
remainingBelow(targetTime, dateNow, windowS) ==
    \/ targetTime.s - windowS < dateNow \div 1000
    \/ (targetTime.s - windowS = dateNow \div 1000 /\ targetTime.ms < dateNow % 1000)

\* 0 < targetTime - dateNow < halvingMessageWindow
remainingInCountdownRange(targetTime, dateNow) ==
    /\ targetTime.k = "fin"
    /\ remainingPositive(targetTime, dateNow)
    /\ remainingBelow(targetTime, dateNow, halvingMessageWindowS)

\* C13: the formatter gives the empty string iff targetTime = 0, a countdown
\* iff targetTime # 0 and 0 < targetTime - now < epochsPerHalving *
\* hoursPerEpoch * 3,600,000 - celebrationWindowMs, and the celebration
\* string in every other case.
C13_FormatterThreeStates ==
    call.op = "format" =>
        /\ countdown.kind = "empty" <=> call.targetTime = Fin(0, 0)
        /\ countdown.kind = "countdown"
              <=> (/\ call.targetTime # Fin(0, 0)
                   /\ remainingInCountdownRange(call.targetTime, call.now))
        /\ countdown.kind = "halving"
              <=> (/\ call.targetTime # Fin(0, 0)
                   /\ ~remainingInCountdownRange(call.targetTime, call.now))

\* dateNow - targetTime >= windowS seconds, for a finite targetTime
elapsedAtLeast(targetTime, dateNow, windowS) ==
    \/ targetTime.s + windowS < dateNow \div 1000
    \/ (targetTime.s + windowS = dateNow \div 1000 /\ targetTime.ms <= dateNow % 1000)

\* C14: with the target held and targetTime <= now, a tick gives the
\* celebration string only while now - targetTime < celebrationWindowMs and
\* never once now - targetTime >= celebrationWindowMs.
C14_CelebrationEndsAfterWindow ==
    (/\ call.op = "format"
     /\ call.targetTime.k = "fin"
     /\ call.targetTime # Fin(0, 0)
     /\ ~remainingPositive(call.targetTime, call.now))
        => (countdown.kind = "halving"
              <=> ~elapsedAtLeast(call.targetTime, call.now,
                                  HALVING_MESSAGE_HIDE_DELAY_S))

\* C15: the breakdown of a duration r > 0 with 30-day months has days < 30,
\* hours < 24, minutes < 60, seconds < 60 and its weighted sum is the whole
\* seconds of r (sum <= r < sum + 1000 ms); 90,061,000 ms gives
\* {months 0, days 1, hours 1, minutes 1, seconds 1}.
C15_BreakdownBounded ==
    call.op = "breakdown" =>
        /\ call.out.months >= 0
        /\ call.out.days >= 0 /\ call.out.days < 30
        /\ call.out.hours >= 0 /\ call.out.hours < 24
        /\ call.out.minutes >= 0 /\ call.out.minutes < 60
        /\ call.out.seconds >= 0 /\ call.out.seconds < 60
        /\ call.out.months * 2592000 + call.out.days * 86400 + call.out.hours * 3600
              + call.out.minutes * 60 + call.out.seconds = call.s
        /\ (call.s = 90061 /\ call.ms = 0)
              => call.out = [months |-> 0, days |-> 1, hours |-> 1,
                             minutes |-> 1, seconds |-> 1]

\* a duration of more than a month was broken down
C15_Witness ==
    /\ call.op = "breakdown"
    /\ call.s = 2682061
    /\ call.out = [months |-> 1, days |-> 1, hours |-> 1, minutes |-> 1, seconds |-> 1]

\* the methods of the requests a poll has sent
methodsSent(poll) ==
    UNION {{poll.sent[k][r].method : r \in 1..Len(poll.sent[k])} :
              k \in 1..Len(poll.sent)}

\* C16: a poll executed in public mode sends no local_node_info request,
\* neither in its batch nor as a single request.
C16_PublicPollNeverAsksNodeInfo ==
    \A i \in 1..Len(polls) :
        polls[i].settings.ckbRpcPublic => "local_node_info" \notin methodsSent(polls[i])

\* C17: a snapshot published by a poll in public mode has connections -1
\* and nodeVersion "n/a" whatever the node returned, and a batched response
\* whose only answer without a result is that of local_node_info decodes.
C17_PublicSnapshotHasSentinels ==
    /\ [][\A i \in 1..Len(polls) :
            (polls[i].settings.ckbRpcPublic /\ publishes(i))
                => /\ currentData'.connections = -1
                   /\ currentData'.nodeVersion = <<"n", "/", "a">>]_vars
    /\ [](\A i \in 1..Len(polls) :
            (polls[i].settings.ckbRpcPublic /\ polls[i].stage = "batch")
                => \A order \in ResponseOrders, tip \in TipHeaders,
                      chain \in ChainInfos, pool \in PoolInfos, node \in NodeInfos :
                      batchDecodes(batchResults(order, 4, tip, chain, pool, node),
                                   polls[i].settings.ckbRpcPublic))

\* a poll in public mode has published its snapshot
C17_Witness ==
    /\ currentData.block # 0
    /\ currentData.connections = -1
    /\ currentData.nodeVersion = <<"n", "/", "a">>

\* the step is a trigger of updateData with an empty ckbRpcUrl
emptyUrlTrigger ==
    \/ \E newSettings \in SettingsValues :
          newSettings.ckbRpcUrl = "" /\ SetSettings(newSettings)
    \/ (settings.ckbRpcUrl = "" /\ (FastLoop \/ SlowLoop))

inFlight(loop) == {i \in 1..Len(polls) : polls[i].loop = loop}

\* C19: at most one poll of the fast loop and at most one poll of the slow
\* loop is in flight at any moment.
C19_LoopNeverOverlapsItself ==
    /\ Cardinality(inFlight("fast")) <= 1
    /\ Cardinality(inFlight("slow")) <= 1

\* C20: no trigger of the fast, slow or tick loop fires before the initial
\* poll has completed.
C20_LoopsWaitForInitialPoll ==
    [][(FastLoop \/ SlowLoop \/ TickLoop) => inFlight("initial") = {}]_vars

\* C21: the sample a firing of the fast loop passes to updateTxHistoryData
\* (the historyState of the currentData it was called with) is the sample
\* that this firing's poll publishes.
C21_FastLoopAppendsItsOwnSample ==
    [][\A i \in 1..Len(polls) :
        (polls[i].loop = "fast" /\ publishes(i))
            => currentData'.historyState = polls[i].base.historyState]_vars

\* the fields of a snapshot other than its target and its sample
nonTargetFields(data) ==
    [data EXCEPT !.targetEpoch = 0, !.targetTime = Fin(0, 0),
                 !.historyState = HistoryState(0, 0, 0)]

\* C23: the snapshot changes only when a poll publishes, and then its
\* non-target fields are those this poll decoded, whichever place the poll
\* has among the polls in flight (whether it was issued before or after the
\* poll that published last).
C23_LastWriteWins ==
    [][/\ (currentData' # currentData => \E i \in 1..Len(polls) : publishes(i))
       /\ \A i \in 1..Len(polls) :
            publishes(i)
                => /\ nonTargetFields(currentData') = nonTargetFields(polls[i].decoded)
                   /\ currentData'.historyState.blockNumber = polls[i].decoded.block]_vars

\* the initial poll and one fast poll were started; the fast poll, issued
\* later from the start-up snapshot, has published block 2 while the initial
\* poll still waits for its second answer with block 1 decoded
C23_Witness ==
    /\ started = 2
    /\ Len(polls) = 1
    /\ polls[1].loop = "initial"
    /\ polls[1].stage = "block"
    /\ polls[1].decoded.block < currentData.block
    /\ currentData.targetEpoch = 0

\* the snapshot a single poll publishes when the node answers tip, chain,
\* pool, node and blockResult (its target left aside)
decodedByOnePoll(data, tip, chain, pool, node, ckbRpcPublic, blockResult) ==
    /\ nonTargetFields(data)
         = nonTargetFields(decodeBatch(batchResults(<<1, 2, 3, 4>>, 0, tip, chain, pool, node),
                                       ckbRpcPublic, now))
    /\ data.historyState = decodeHistoryState(tip.number, blockResult)

\* C24: the block height, the epoch fields, the chain label, the pool
\* fields, the connections and version and the sample of the published
\* snapshot are those of one poll (or all those of the start-up snapshot),
\* and the sample's blockNumber is the snapshot's block height.
C24_PublicationIsAtomic ==
    /\ currentData.historyState.blockNumber = currentData.block
    /\ \/ /\ nonTargetFields(currentData) = nonTargetFields(currentDataDefault)
          /\ currentData.historyState = currentDataDefault.historyState
       \/ \E tip \in TipHeaders, chain \in ChainInfos, pool \in PoolInfos,
             node \in NodeInfos, ckbRpcPublic \in BOOLEAN, blockResult \in BlockResults :
             decodedByOnePoll(currentData, tip, chain, pool, node, ckbRpcPublic, blockResult)

\* a snapshot of block 2 was published and appended, and the snapshot of
\* block 1 published after it has replaced every field of it
C24_Witness ==
    /\ currentData.block = 1
    /\ includesBlockNumber(txHistory, 2)

\* C25: a firing of the tick loop starts no poll (sends no request), shows
\* no error and leaves the settings, the snapshot with its target and the
\* tx history unchanged; the countdown it sets is generateCountdown of the
\* targetTime held at the firing and of the current time.
C25_TickOnlyFormats ==
    [][TickLoop
        => /\ polls' = polls
           /\ toasts' = toasts
           /\ settings' = settings
           /\ currentData' = currentData
           /\ txHistory' = txHistory
           /\ countdown' = generateCountdown(currentData.targetTime, now)]_vars

\* a tick has put out a countdown for the target of a published snapshot
\* while a poll was in flight
C25_Witness ==
    /\ countdown.kind = "countdown"
    /\ currentData.block # 0
    /\ polls # <<>>

\* the blockNumbers of the samples of the tx history, in buffer order (the
\* placeholders of the start-up buffer, with blockNumber 0, left out)
sampleBlockNumbers(history) ==
    SelectSeq(blockNumbers(history), LAMBDA n : n # 0)

\* C28: the blockNumbers of the samples of the tx history, taken in buffer
\* order, are strictly increasing.
C28_SamplesInBlockOrder ==
    \A i, j \in 1..Len(sampleBlockNumbers(txHistory)) :
        i < j => sampleBlockNumbers(txHistory)[i] < sampleBlockNumbers(txHistory)[j]

\* the get_block_by_number requests among the requests a poll has sent
blockRequests(poll) ==
    {k \in 1..Len(poll.sent) :
        \E r \in 1..Len(poll.sent[k]) : poll.sent[k][r].method = "get_block_by_number"}

RECURSIVE hexValue(_)
\* the number a sequence of hexadecimal digits denotes
hexValue(digits) ==
    IF digits = <<>> THEN 0
    ELSE 16 * hexValue(SubSeq(digits, 1, Len(digits) - 1))
            + ((CHOOSE d \in 1..16 : HexDigits[d] = digits[Len(digits)]) - 1)

\* C27: a poll that waits for its batched response has sent no
\* get_block_by_number request; a poll that has decoded it has sent exactly
\* one, after the batch, as a single request whose block number is the one
\* decoded from this poll's tip header.
C27_BlockRequestFollowsBatch ==
    \A i \in 1..Len(polls) :
        /\ polls[i].stage = "batch" => blockRequests(polls[i]) = {}
        /\ polls[i].stage = "block"
            => /\ blockRequests(polls[i]) = {2}
               /\ polls[i].sent[1] = jsonRpcRequest1
               /\ Len(polls[i].sent[2]) = 1
               /\ SubSeq(polls[i].sent[2][1].params, 1, 2) = <<"0", "x">>
               /\ hexValue(SubSeq(polls[i].sent[2][1].params, 3,
                                  Len(polls[i].sent[2][1].params)))
                    = polls[i].decoded.block

\* two polls are in flight, one has sent its get_block_by_number request
\* for block 2 and the other still waits for its batch
C27_Witness ==
    /\ Len(polls) = 2
    /\ \E i, j \in 1..2 :
          /\ polls[i].stage = "block" /\ polls[i].decoded.block = 2
          /\ polls[j].stage = "batch"

\* C30: a poll that fails shows exactly one message: TOAST_NETWORK when its
\* fetch was rejected by a transport failure, TOAST_GENERIC when an answer
\* could not be parsed or carried no result.
C30_OneMessagePerFailureKind ==
    [][\A i \in 1..Len(polls) :
        /\ \A error \in FetchRejections :
              pollThrows(i, catchToast(error)) => toasts' = Append(toasts, TOAST_NETWORK)
        /\ \A error \in {JsonError, DestructureError} :
              pollThrows(i, catchToast(error)) => toasts' = Append(toasts, TOAST_GENERIC)]_vars

\* C26: whatever the order of the answers in the response array, the batch
\* decodes exactly when the same answers in the order of their ids decode,
\* and to the same values.
C26_DecodeIgnoresArrayOrder ==
    call.op = "batch"
        => LET inIdOrder == batchResults(<<1, 2, 3, 4>>, call.errorId, call.tip,
                                         call.chain, call.pool, call.node)
           IN  /\ call.decodes = batchDecodes(inIdOrder, call.ckbRpcPublic)
               /\ call.decodes
                    => call.out = decodeBatch(inIdOrder, call.ckbRpcPublic, now)

\* a response whose answers came in the order 3, 1, 4, 2 was decoded
C26_Witness ==
    /\ call.op = "batch"
    /\ call.order = <<3, 1, 4, 2>>
    /\ call.decodes
    /\ call.out.block = 2
    /\ call.out.connections = 8

\* C29: a countdown the formatter puts out has at least one of months,
\* days, hours, minutes and seconds different from zero.
C29_CountdownNeverAllZero ==
    countdown.kind = "countdown" => countdown.value # NoTimeValue

\* a step in which a poll fails
pollFails == \E i \in 1..Len(polls) : BatchFails(i) \/ BlockFails(i)

\* a step in which a poll publishes its snapshot
pollPublishes == \E i \in 1..Len(polls) : publishes(i)

\* C22: if from some point on no poll fails, then however many polls have
\* failed before, a snapshot is published again and again: the intervals
\* keep firing and starting polls.
C22_FailuresDoNotStopPolling ==
    (<>[][~pollFails]_vars) => ([]<><<pollPublishes>>_vars)

\* an interval fired while the error of a failed poll was shown and nothing
\* had been published, and a snapshot was published after that
C22_Witness ==
    /\ call.op = "fired"
    /\ call.afterFailure
    /\ call.block = 0
    /\ currentData.block # 0

\* C31: the minFeeRate of a published snapshot is the min_fee_rate of a
\* tx_pool_info answer.
C31_MinFeeRateIsMinFeeRate ==
    currentData.block # 0
        => \E pool \in PoolInfos : currentData.minFeeRate = pool.min_fee_rate

\* a snapshot none of whose fields is a value the model's node gives
foreignData ==
    [block |-> 9, chainType |-> "Testnet", connections |-> 99,
     epoch |-> 9, epochIndex |-> 9, epochLength |-> 9,
     historyState |-> HistoryState(9, 9, 9),
     minFeeRate |-> 9, nodeVersion |-> <<"v", "9">>,
     orphan |-> 9, pending |-> 9, proposed |-> 9,
     targetEpoch |-> 9, targetTime |-> Fin(9, 9),
     totalTxCycles |-> 9, txSize |-> 9]

\* C32: what a poll with updateTargets publishes does not depend on the
\* currentData it was called with: it is the snapshot the same answers give
\* when the poll is called with the start-up snapshot, with the snapshot
\* published at the time or with a snapshot that differs in every field.
C32_FullPollIgnoresPriorState ==
    [][\A i \in 1..Len(polls) :
        (polls[i].updateTargets /\ publishes(i))
            => \E blockResult \in BlockResults :
                  \A base \in {currentDataDefault, currentData, polls[i].base, foreignData} :
                      currentData' = newCurrentData(base, polls[i].decoded,
                                         decodeHistoryState(polls[i].decoded.block,
                                                            blockResult), TRUE)]_vars

\* a slow poll called with a published snapshot of block 1, of the local
\* node, has decoded block 2 in public mode and is about to publish, while
\* the published snapshot is no longer the one it was called with
C32_Witness ==
    \E i \in 1..Len(polls) :
        /\ polls[i].loop = "slow"
        /\ polls[i].stage = "block"
        /\ polls[i].base.block = 1
        /\ polls[i].decoded.block = 2
        /\ polls[i].base # currentData
        /\ currentData.block # 0

\* the places of the placeholders (elements with blockNumber 0)
placeholders(history) == {i \in 1..Len(history) : history[i].blockNumber = 0}

\* C33: the placeholders of the tx history are its first elements; a step
\* never raises their number, a step that changes the buffer puts a sample
\* with a non-zero blockNumber at its end, and a sample leaves the buffer
\* only when the buffer holds no placeholder.
C33_PlaceholdersLeaveFirst ==
    /\ [](\A i \in placeholders(txHistory) : \A j \in 1..(i - 1) : j \in placeholders(txHistory))
    /\ [][/\ Cardinality(placeholders(txHistory')) <= Cardinality(placeholders(txHistory))
          /\ txHistory' # txHistory
                => txHistory'[Len(txHistory')].blockNumber # 0
          /\ (\E i \in 1..Len(txHistory) :
                 /\ txHistory[i].blockNumber # 0
                 /\ ~includesBlockNumber(txHistory', txHistory[i].blockNumber))
                => placeholders(txHistory) = {}]_vars

\* an append to a full buffer without placeholders has evicted a sample
C33_Witness ==
    /\ call.op = "append"
    /\ Len(call.before) = MAX_TX_HISTORY_COUNT
    /\ placeholders(call.before) = {}
    /\ txHistory # call.before

\* C34: the tx history changes only in a firing of the fast loop, and then
\* by the sample of the snapshot published at that moment, which has a
\* non-zero blockNumber, added at its end; a step in which a poll fails
\* leaves the tx history as it was.
C34_BufferHoldsPublishedSamples ==
    [][/\ txHistory' # txHistory
            => /\ FastLoop
               /\ currentData.historyState.blockNumber # 0
               /\ txHistory' = Append(shiftIfFull(txHistory), currentData.historyState)
       /\ pollFails => txHistory' = txHistory]_vars

\* every poll of the run is over, one of them has failed (its error is
\* shown), and the tx history holds the sample of the published snapshot
C34_Witness ==
    /\ toasts # <<>>
    /\ currentData.block # 0
    /\ includesBlockNumber(txHistory, currentData.block)
    /\ started = MaxPolls
    /\ polls = <<>>

\* the time from one halving to the next, in seconds
halvingCycleS == EPOCHS_PER_HALVING * HOURS_PER_EPOCH * SECONDS_PER_HOUR

\* a position with 0 <= epochIndex < epochLength was projected
validProjection == call.op = "project" /\ call.epochIndex < call.epochLength

\* C35: for a position with epochIndex < epochLength the projected duration
\* is above 0 and at most EPOCHS_PER_HALVING * HOURS_PER_EPOCH * 3,600,000
\* ms, which it is exactly when epochNumber is a multiple of
\* EPOCHS_PER_HALVING and epochIndex = 0; targetTime is later than now.
C35_DurationWithinOneCycle ==
    validProjection =>
        /\ NumPositive(call.targetDuration)
        /\ \/ call.targetDuration.s < halvingCycleS
           \/ call.targetDuration = Fin(halvingCycleS, 0)
        /\ call.targetDuration = Fin(halvingCycleS, 0)
              <=> (call.epochNumber % EPOCHS_PER_HALVING = 0 /\ call.epochIndex = 0)
        /\ remainingPositive(call.targetTime, call.now)

\* the last block of the last epoch before a halving, of the longest epoch,
\* was projected: the shortest duration of the positions
C35_Witness ==
    /\ validProjection
    /\ call.epochNumber = 8759
    /\ call.epochIndex = 65534
    /\ call.targetDuration = Fin(0, 219)

\* C36: the countdown generated for a target at the Date.now() it was
\* projected at, from a position with epochIndex < epochLength, is the
\* halving message when the projected duration is at least the cycle less
\* HALVING_MESSAGE_HIDE_DELAY (so for epochIndex = 0 on a multiple of
\* EPOCHS_PER_HALVING), and a countdown for every other position.
C36_CelebrationAtProjection ==
    validProjection =>
        /\ call.countdown.kind
              = IF call.targetDuration.s >= halvingCycleS - HALVING_MESSAGE_HIDE_DELAY_S
                THEN "halving" ELSE "countdown"
        /\ (call.epochNumber % EPOCHS_PER_HALVING = 0 /\ call.epochIndex = 0)
              => call.countdown.kind = "halving"

\* a position 8 seconds into a new halving period gave the halving message
C36_Witness ==
    /\ validProjection
    /\ call.epochNumber = 8760
    /\ call.epochIndex = 1
    /\ call.epochLength = 1800
    /\ call.countdown.kind = "halving"

\* C37: whenever the published snapshot holds the sample of a block, that
\* block is in the tx history then or later.
C37_PublishedSampleIsAppended ==
    \A b \in {tip.number : tip \in TipHeaders} :
        (currentData.historyState.blockNumber = b) ~> includesBlockNumber(txHistory, b)

====
